---- MODULE Spec2Model ----
(***************************************************************************)
(* Blockly.Undoredo (core/undoredo.js): an SVG widget with two labels,     *)
(* "Undo" and "Redo", placed in the corner of the workspace opposite the   *)
(* toolbox.  The model follows the widget's fields, the DOM nodes it       *)
(* creates, and the calls each operation makes on its collaborators.       *)
(***************************************************************************)
EXTENDS Integers, Sequences, FiniteSets

VARIABLES
  workspace_,          \* this.workspace_: WS or NULL
  svgGroup_,           \* this.svgGroup_: a node id, 0 for null
  verticalSpacing_,    \* this.verticalSpacing_: <<>> for undefined, <<n>> for the number n
  left_,               \* this.left_
  top_,                \* this.top_
  dom,                 \* the root groups created so far: attached?, transform attribute
  horizontalLayout,    \* workspace.horizontalLayout
  RTL,                 \* workspace.RTL
  scrollbarThickness,  \* Blockly.Scrollbar.scrollbarThickness
  last                 \* the most recent operation and the calls it made

vars == <<workspace_, svgGroup_, verticalSpacing_, left_, top_, dom,
          horizontalLayout, RTL, scrollbarThickness, last>>

widget == <<workspace_, svgGroup_, verticalSpacing_, left_, top_, dom>>

-----------------------------------------------------------------------------
(* Bounds of the model *)

\* createDom() calls explored
MaxNodes == 1

-----------------------------------------------------------------------------
(* Constants of the widget *)

WIDTH_ == 47
BODY_HEIGHT_ == 44
MARGIN_BOTTOM_ == 20
MARGIN_SIDE_ == 20

\* Blockly.TOOLBOX_AT_* (core/constants.js)
TOOLBOX_AT_TOP == 0
TOOLBOX_AT_BOTTOM == 1
TOOLBOX_AT_LEFT == 2
TOOLBOX_AT_RIGHT == 3

WS == "workspace"
NULL == "null"

-----------------------------------------------------------------------------
(* Inputs *)

\* verticalSpacing arguments given to init(); -20 cancels MARGIN_BOTTOM_
SpacingInputs == {-20, 0, 10}

\* viewports the workspace reports
Viewports ==
  { [viewWidth |-> 300, absoluteLeft |-> 40, viewHeight |-> 200, absoluteTop |-> 0],
    [viewWidth |-> 400, absoluteLeft |-> 0, viewHeight |-> 250, absoluteTop |-> 30] }

ToolboxPositions ==
  {TOOLBOX_AT_TOP, TOOLBOX_AT_BOTTOM, TOOLBOX_AT_LEFT, TOOLBOX_AT_RIGHT}

\* what workspace.getMetrics() returns when the workspace is visible
MetricsSet ==
  { [viewWidth |-> v.viewWidth, absoluteLeft |-> v.absoluteLeft,
     viewHeight |-> v.viewHeight, absoluteTop |-> v.absoluteTop,
     toolboxPosition |-> p] : v \in Viewports, p \in ToolboxPositions }

\* getMetrics(): <<>> for null (workspace not visible), <<m>> otherwise
MetricsResults == {<<>>} \cup {<<m>> : m \in MetricsSet}

ScrollbarThicknessSet == {15, 25}

-----------------------------------------------------------------------------
(* The record of the most recent operation *)

Trace(op, input, ret, threw, metrics, undo, removed, written) ==
  [op |-> op, input |-> input, ret |-> ret, threw |-> threw,
   metrics |-> metrics, undo |-> undo, removed |-> removed, written |-> written]

Quiet(op) == Trace(op, <<>>, <<>>, FALSE, <<>>, <<>>, <<>>, <<>>)

-----------------------------------------------------------------------------
(* createDom *)

NewNode == [attached |-> FALSE, transform |-> <<>>]

createDom ==
  /\ Len(dom) < MaxNodes
  /\ dom' = Append(dom, NewNode)
  /\ svgGroup_' = Len(dom) + 1
  /\ last' = [Quiet("createDom") EXCEPT !.ret = <<Len(dom) + 1>>]
  /\ UNCHANGED <<workspace_, verticalSpacing_, left_, top_,
                 horizontalLayout, RTL, scrollbarThickness>>

\* the host inserts the group createDom() returned into the workspace's tree
HostInsert ==
  /\ svgGroup_ # 0
  /\ ~dom[svgGroup_].attached
  /\ dom' = [dom EXCEPT ![svgGroup_].attached = TRUE]
  /\ last' = Quiet("hostInsert")
  /\ UNCHANGED <<workspace_, svgGroup_, verticalSpacing_, left_, top_,
                 horizontalLayout, RTL, scrollbarThickness>>

-----------------------------------------------------------------------------
(* init *)

\* init() forgetting the bottom margin
InitSpacingNoMargin(v) == v

InitSpacing(v) == MARGIN_BOTTOM_ + v

InitExtent(vs) == vs + BODY_HEIGHT_

init(v) ==
  /\ verticalSpacing_' = <<InitSpacing(v)>>
  /\ last' = [Quiet("init") EXCEPT !.input = <<v>>,
                                   !.ret = <<InitExtent(InitSpacing(v))>>]
  /\ UNCHANGED <<workspace_, svgGroup_, left_, top_, dom,
                 horizontalLayout, RTL, scrollbarThickness>>

-----------------------------------------------------------------------------
(* dispose *)

\* Blockly.utils.dom.removeNode: detaches the node when it is a node with a parent
RemoveNode(d, n) ==
  IF n \in 1..Len(d) THEN [d EXCEPT ![n].attached = FALSE] ELSE d

\* dispose() without its check of this.svgGroup_
HasGroupAlways(sg) == TRUE

\* if (this.svgGroup_)
HasGroup(sg) == sg # 0

dispose ==
  /\ IF HasGroup(svgGroup_)
       THEN /\ dom' = RemoveNode(dom, svgGroup_)
            /\ svgGroup_' = 0
            /\ last' = [Quiet("dispose") EXCEPT !.removed = <<svgGroup_>>]
       ELSE /\ UNCHANGED <<dom, svgGroup_>>
            /\ last' = Quiet("dispose")
  /\ workspace_' = NULL
  /\ UNCHANGED <<verticalSpacing_, left_, top_,
                 horizontalLayout, RTL, scrollbarThickness>>

-----------------------------------------------------------------------------
(* position *)

\* !this.verticalSpacing_ : undefined and 0 are both falsy
NotInitialized(vs) == vs = <<>> \/ vs[1] = 0

\* the corner test without its `!this.workspace_.RTL`
ToolboxStartsLeftIgnoringRTL(m, hl, rtl) ==
  m.toolboxPosition = TOOLBOX_AT_LEFT \/ hl

ToolboxStartsLeft(m, hl, rtl) ==
  m.toolboxPosition = TOOLBOX_AT_LEFT \/ (hl /\ ~rtl)

LeftOf(m, hl, rtl, sb) ==
  IF ToolboxStartsLeft(m, hl, rtl)
    THEN m.viewWidth + m.absoluteLeft - WIDTH_ - MARGIN_SIDE_ - sb
    ELSE MARGIN_SIDE_ + sb

\* the top offset without the toolbox-at-bottom case
TopOfIgnoringToolbox(m, vs) ==
  m.viewHeight + m.absoluteTop - BODY_HEIGHT_ - vs

TopOf(m, vs) ==
  IF m.toolboxPosition = TOOLBOX_AT_BOTTOM
    THEN vs
    ELSE m.viewHeight + m.absoluteTop - BODY_HEIGHT_ - vs

\* 'translate(' + left + ',' + top + ')' as the value of the transform attribute
Translate(l, t) == <<[fn |-> "translate", x |-> l, y |-> t]>>

\* position() with the check of this.workspace_ gone: metrics come however
\* this.workspace_ stands
PositionOutcomeIgnoringWorkspace(vs, ws, sg, m) ==
  IF NotInitialized(vs) THEN "uninitialized"
  ELSE IF m = <<>> THEN "noMetrics"
  ELSE IF sg = 0 THEN "throwLate"
  ELSE "placed"

\* position() asking for the metrics before it looks at this.verticalSpacing_
PositionOutcomeMetricsFirst(vs, ws, sg, m) ==
  IF ws = NULL THEN "throwEarly"
  ELSE IF m = <<>> THEN "noMetrics"
  ELSE IF NotInitialized(vs) THEN "uninitialized"
  ELSE IF sg = 0 THEN "throwLate"
  ELSE "placed"

\* position() without its `if (!metrics) return`: metrics.toolboxPosition on null
PositionOutcomeNoMetricsGuard(vs, ws, sg, m) ==
  IF NotInitialized(vs) THEN "uninitialized"
  ELSE IF ws = NULL \/ m = <<>> THEN "throwEarly"
  ELSE IF sg = 0 THEN "throwLate"
  ELSE "placed"

\* How far position() gets: the return when not initialized; a TypeError on
\* this.workspace_.getMetrics() when this.workspace_ is null, before left_ and
\* top_ are assigned; the return when there are no metrics; a TypeError on
\* this.svgGroup_.setAttribute() when this.svgGroup_ is null, after left_ and
\* top_ are assigned; or the transform written.
PositionOutcome(vs, ws, sg, m) ==
  IF NotInitialized(vs) THEN "uninitialized"
  ELSE IF ws = NULL THEN "throwEarly"
  ELSE IF m = <<>> THEN "noMetrics"
  ELSE IF sg = 0 THEN "throwLate"
  ELSE "placed"

position(m) ==
  LET out == PositionOutcome(verticalSpacing_, workspace_, svgGroup_, m)
      computed == out \in {"throwLate", "placed"}
      l == LeftOf(m[1], horizontalLayout, RTL, scrollbarThickness)
      t == TopOf(m[1], verticalSpacing_[1])
  IN
  /\ left_' = IF computed THEN l ELSE left_
  /\ top_' = IF computed THEN t ELSE top_
  /\ dom' = IF out = "placed"
              THEN [dom EXCEPT ![svgGroup_].transform = Translate(l, t)]
              ELSE dom
  /\ last' = Trace("position", m, <<>>,
                   out \in {"throwEarly", "throwLate"},
                   IF out \in {"noMetrics", "throwLate", "placed"} THEN <<m>> ELSE <<>>,
                   <<>>, <<>>,
                   IF out = "placed" THEN <<svgGroup_>> ELSE <<>>)
  /\ UNCHANGED <<workspace_, svgGroup_, verticalSpacing_,
                 horizontalLayout, RTL, scrollbarThickness>>

-----------------------------------------------------------------------------
(* mouse handlers, bound to the labels by createDom *)

HandlersBound == Len(dom) > 0

\* this.workspace_.undo(false)
UndoDirection == FALSE

\* redoMouseDown_ copied from undoMouseDown_ with its argument left as it was
RedoDirectionAsUndo == FALSE

\* this.workspace_.undo(true)
RedoDirection == TRUE

\* this.workspace_.undo(redo): a TypeError when this.workspace_ is null
Press(op, redo) ==
  /\ HandlersBound
  /\ last' = IF workspace_ = NULL
               THEN [Quiet(op) EXCEPT !.threw = TRUE]
               ELSE [Quiet(op) EXCEPT !.undo = <<redo>>]
  /\ UNCHANGED <<workspace_, svgGroup_, verticalSpacing_, left_, top_, dom,
                 horizontalLayout, RTL, scrollbarThickness>>

EmptyHandler(op) ==
  /\ HandlersBound
  /\ last' = Quiet(op)
  /\ UNCHANGED <<workspace_, svgGroup_, verticalSpacing_, left_, top_, dom,
                 horizontalLayout, RTL, scrollbarThickness>>

undoMouseDown_ == Press("undoMouseDown_", UndoDirection)
undoMouseUp_ == EmptyHandler("undoMouseUp_")
undoMouseOver_ == EmptyHandler("undoMouseOver_")
undoMouseOut_ == EmptyHandler("undoMouseOut_")
redoMouseDown_ == Press("redoMouseDown_", RedoDirection)
redoMouseUp_ == EmptyHandler("redoMouseUp_")
redoMouseOver_ == EmptyHandler("redoMouseOver_")
redoMouseOut_ == EmptyHandler("redoMouseOut_")

-----------------------------------------------------------------------------

Init ==
  /\ workspace_ = WS
  /\ svgGroup_ = 0
  /\ verticalSpacing_ = <<>>
  /\ left_ = 0
  /\ top_ = 0
  /\ dom = <<>>
  /\ horizontalLayout \in BOOLEAN
  /\ RTL \in BOOLEAN
  /\ scrollbarThickness \in ScrollbarThicknessSet
  /\ last = Quiet("new")

Next ==
  \/ createDom
  \/ HostInsert
  \/ \E v \in SpacingInputs : init(v)
  \/ \E m \in MetricsResults : position(m)
  \/ dispose
  \/ undoMouseDown_
  \/ undoMouseUp_
  \/ undoMouseOver_
  \/ undoMouseOut_
  \/ redoMouseDown_
  \/ redoMouseUp_
  \/ redoMouseOver_
  \/ redoMouseOut_

Spec == Init /\ [][Next]_vars

-----------------------------------------------------------------------------
(* Properties *)

\* the transform attribute position() leaves on the root group
TransformAt(l, t) == <<[fn |-> "translate", x |-> l, y |-> t]>>

\* the group id names a group that exists
IsGroup(sg) == sg \in 1..Len(dom)

\* position() ran to its last line
Placed == last.op = "position" /\ last.written # <<>>

\* C1: after init(v) the recorded vertical spacing is 20 + v and the value
\* returned is 64 + v, on the first init() and on every later one.
InitRecordsSpacingAndReturnsExtent ==
  last.op = "init" =>
    /\ verticalSpacing_ = <<20 + last.input[1]>>
    /\ last.ret = <<64 + last.input[1]>>

\* init(10) after an earlier init(0): top_ = 136 was computed from a spacing of 20
InitOverwritesWitness ==
  /\ last.op = "init"
  /\ last.input = <<10>>
  /\ verticalSpacing_ = <<30>>
  /\ top_ = 136

\* C2: while init() has never been called, position() changes neither left_,
\* top_ nor any transform, asks for no metrics and throws nothing.
PositionBeforeInitIsNoOp ==
  [][(last'.op = "position" /\ verticalSpacing_ = <<>>) =>
       /\ left_' = left_
       /\ top_' = top_
       /\ dom' = dom
       /\ ~last'.threw
       /\ last'.metrics = <<>>
       /\ last'.written = <<>>]_vars

\* position() before init(), on a created widget whose workspace has metrics
PositionBeforeInitWitness ==
  /\ last.op = "position"
  /\ verticalSpacing_ = <<>>
  /\ svgGroup_ # 0
  /\ last.input # <<>>

\* C3: on a created and initialized widget whose workspace returns no metrics,
\* position() changes neither left_, top_ nor any transform and throws nothing.
PositionWithoutMetricsIsNoOp ==
  [][(/\ last'.op = "position"
      /\ last'.input = <<>>
      /\ svgGroup_ # 0
      /\ verticalSpacing_ # <<>>
      /\ workspace_ # NULL) =>
       /\ left_' = left_
       /\ top_' = top_
       /\ dom' = dom
       /\ ~last'.threw
       /\ last'.written = <<>>]_vars

\* getMetrics() was asked and returned null, and an earlier transform is still there
PositionWithoutMetricsWitness ==
  /\ last.op = "position"
  /\ last.metrics = <<<<>>>>
  /\ IsGroup(svgGroup_)
  /\ dom[svgGroup_].transform # <<>>

\* C4: when position() takes effect, left_ is viewWidth + absoluteLeft - 47 - 20
\* - scrollbarThickness if the toolbox is at the left or the layout is
\* horizontal and not RTL, and 20 + scrollbarThickness otherwise.
LeftIsOppositeTheToolbox ==
  Placed =>
    LET m == last.input[1] IN
    left_ = IF m.toolboxPosition = 2 \/ (horizontalLayout /\ ~RTL)
              THEN m.viewWidth + m.absoluteLeft - 47 - 20 - scrollbarThickness
              ELSE 20 + scrollbarThickness

\* placed in a horizontal RTL layout, toolbox not at the left, over an earlier left_
LeftWitness ==
  /\ Placed
  /\ horizontalLayout
  /\ RTL
  /\ last.input[1].toolboxPosition = 3
  /\ left_ = 20 + scrollbarThickness

\* C5: when position() takes effect, top_ is the recorded vertical spacing if
\* the toolbox is at the bottom and viewHeight + absoluteTop - 44 - spacing
\* otherwise, and the root group's transform is translate(left_, top_).
TopAndTransform ==
  Placed =>
    LET m == last.input[1]
        vs == verticalSpacing_[1]
    IN
    /\ top_ = IF m.toolboxPosition = 1
                THEN vs
                ELSE m.viewHeight + m.absoluteTop - 44 - vs
    /\ last.written = <<svgGroup_>>
    /\ dom[svgGroup_].transform = TransformAt(left_, top_)

\* placed with the toolbox at the bottom after init(10)
TopWitness ==
  /\ Placed
  /\ last.input[1].toolboxPosition = 1
  /\ top_ = 30

\* C6: dispose() leaves svgGroup_ and workspace_ null and the root group
\* detached and throws nothing; a dispose() right after a dispose() removes no
\* node and leaves the widget as it was.
DisposeReleasesAndIsIdempotent ==
  [][last'.op = "dispose" =>
       /\ svgGroup_' = 0
       /\ workspace_' = NULL
       /\ ~last'.threw
       /\ IsGroup(svgGroup_) => ~dom'[svgGroup_].attached
       /\ last.op = "dispose" => (last'.removed = <<>> /\ widget' = widget)]_vars

\* a dispose() that found the root group already released
SecondDisposeWitness ==
  /\ last.op = "dispose"
  /\ last.removed = <<>>
  /\ Len(dom) > 0
  /\ svgGroup_ = 0
  /\ \A n \in 1..Len(dom) : ~dom[n].attached

\* C7: on a widget that is not disposed, a press on "Undo" calls
\* workspace.undo(false) once, a press on "Redo" calls workspace.undo(true)
\* once, and the release and hover handlers call nothing and change nothing.
PressesDelegateToWorkspace ==
  [][/\ (last'.op = "undoMouseDown_" /\ workspace_ # NULL) =>
          (last'.undo = <<FALSE>> /\ ~last'.threw)
     /\ (last'.op = "redoMouseDown_" /\ workspace_ # NULL) =>
          (last'.undo = <<TRUE>> /\ ~last'.threw)
     /\ last'.op \in {"undoMouseUp_", "undoMouseOver_", "undoMouseOut_",
                      "redoMouseUp_", "redoMouseOver_", "redoMouseOut_"} =>
          (last'.undo = <<>> /\ ~last'.threw /\ widget' = widget)]_vars

\* a press on "Redo" before init() and position()
RedoPressWitness ==
  /\ last.op = "redoMouseDown_"
  /\ last.undo = <<TRUE>>
  /\ verticalSpacing_ = <<>>
  /\ left_ = 0

\* C8: no operation throws.
NoOperationThrows == ~last.threw

\* C9, as stated: once the workspace reference is cleared, it stays cleared,
\* the root group stays released and no transform is written.
DisposedIsTerminal ==
  [][(workspace_ = NULL /\ svgGroup_ = 0) =>
       /\ workspace_' = NULL
       /\ svgGroup_' = 0
       /\ last'.written = <<>>]_vars

\* C9, amended: once the workspace reference is cleared, it stays cleared and
\* no transform is written; the root group stays released until createDom()
\* is called again.
DisposedStaysClearedUntilCreateDom ==
  [][workspace_ = NULL =>
       /\ workspace_' = NULL
       /\ last'.written = <<>>
       /\ \A n \in 1..Len(dom) : dom'[n].transform = dom[n].transform
       /\ (svgGroup_ = 0 /\ last'.op # "createDom") => svgGroup_' = 0]_vars

\* position() on a widget disposed and then given a new root group
PositionAfterDisposeWitness ==
  /\ workspace_ = NULL
  /\ svgGroup_ # 0
  /\ verticalSpacing_ = <<30>>
  /\ last.op = "position"
  /\ last.input # <<>>

\* C10: after createDom() and init(v), a position() call with metrics
\* available writes the transform from the recomputed left_ and top_.
InitializedPositionPlaces ==
  (/\ last.op = "position"
   /\ last.input # <<>>
   /\ verticalSpacing_ # <<>>
   /\ IsGroup(svgGroup_)
   /\ workspace_ # NULL) =>
    /\ last.written = <<svgGroup_>>
    /\ dom[svgGroup_].transform = TransformAt(left_, top_)

====
